---- MODULE Spec2Model ----
(***************************************************************************)
(* A model of templatr (bin/index.js): the template substitution function  *)
(* generateTemplate, the interactive session loop run, and the HTTPS       *)
(* request handler that serves the results directory.                      *)
(*                                                                         *)
(* Strings of the program are sequences of one-character strings, so that  *)
(* the regular expression, String.prototype.replace, split and includes    *)
(* are modelled character by character.                                    *)
(***************************************************************************)
EXTENDS Integers, Sequences, FiniteSets, TLC

(***************************************************************************)
(* Bounds of the model.                                                    *)
(***************************************************************************)
\* templates of the substitution specification are built from at most
\* MaxPieces pieces of TemplatePieces
MaxPieces == 3
\* at most MaxOrphans prompts of the session are left unanswered for ever
MaxOrphans == 2

(***************************************************************************)
(* Characters and general string helpers.                                  *)
(***************************************************************************)
\* the characters \s of the regular expression matches, among the model's
Whitespace == {" ", "\n", "\t"}

RECURSIVE Flatten(_)
Flatten(ss) == IF ss = <<>> THEN <<>> ELSE Head(ss) \o Flatten(Tail(ss))

\* s.slice(from - 1, to) of JavaScript with 1-based inclusive bounds
Slice(s, from, to) == IF from > to THEN <<>> ELSE SubSeq(s, from, to)

OccursAt(s, pat, i) ==
    /\ i >= 1
    /\ i + Len(pat) - 1 <= Len(s)
    /\ \A k \in 1..Len(pat) : s[i + k - 1] = pat[k]

\* String.prototype.indexOf, 1-based; 0 when pat does not occur in s
IndexOf(s, pat) ==
    IF \E i \in 1..(Len(s) + 1) : OccursAt(s, pat, i)
    THEN CHOOSE i \in 1..(Len(s) + 1) :
            /\ OccursAt(s, pat, i)
            /\ \A j \in 1..(i - 1) : ~OccursAt(s, pat, j)
    ELSE 0

\* String.prototype.includes
Includes(s, pat) == IndexOf(s, pat) # 0

(***************************************************************************)
(* JavaScript values read from a parsed JSON document.                     *)
(***************************************************************************)
Str(s) == [t |-> "string", s |-> s, n |-> 0]
Num(n) == [t |-> "number", s |-> <<>>, n |-> n]
Null == [t |-> "null", s |-> <<>>, n |-> 0]
Undefined == [t |-> "undefined", s |-> <<>>, n |-> 0]
\* a built-in function; s is what it returns when called with this = undefined,
\* n = 1 when that call throws a TypeError
Builtin(s, throws) == [t |-> "function", s |-> s, n |-> IF throws THEN 1 ELSE 0]

Digit(d) == CASE d = 0 -> "0" [] d = 1 -> "1" [] d = 2 -> "2" [] d = 3 -> "3"
              [] d = 4 -> "4" [] d = 5 -> "5" [] d = 6 -> "6" [] d = 7 -> "7"
              [] d = 8 -> "8" [] d = 9 -> "9"

RECURSIVE NatToString(_)
NatToString(n) == IF n < 10 THEN <<Digit(n)>>
                  ELSE NatToString(n \div 10) \o <<Digit(n % 10)>>

\* ToString of a value that is not a function
ToStr(v) ==
    CASE v.t = "string" -> v.s
      [] v.t = "number" -> NatToString(v.n)
      [] v.t = "null" -> <<"n", "u", "l", "l">>
      [] v.t = "undefined" ->
            <<"u", "n", "d", "e", "f", "i", "n", "e", "d">>

\* the properties a parsed JSON object inherits from Object.prototype that
\* the model knows: called by replace with this = undefined, valueOf throws a
\* TypeError and toString returns "[object Undefined]"
ObjectPrototype ==
    [k \in {<<"v", "a", "l", "u", "e", "O", "f">>,
            <<"t", "o", "S", "t", "r", "i", "n", "g">>} |->
        IF k = <<"v", "a", "l", "u", "e", "O", "f">>
        THEN Builtin(<<>>, TRUE)
        ELSE Builtin(<<"[", "o", "b", "j", "e", "c", "t", " ",
                       "U", "n", "d", "e", "f", "i", "n", "e", "d", "]">>,
                     FALSE)]

\* a parsed JSON document is Null or an object: a function from own keys to
\* values, wrapped so that both kinds compare
Obj(m) == [t |-> "object", m |-> m]
JsonNull == [t |-> "null", m |-> <<>>]

\* data[key] on an object
Lookup(data, key) ==
    IF key \in DOMAIN data.m THEN data.m[key]
    ELSE IF key \in DOMAIN ObjectPrototype THEN ObjectPrototype[key]
    ELSE Undefined

(***************************************************************************)
(* generateTemplate                                                        *)
(***************************************************************************)
\* the class [^\s.] of the regular expression
KeyChar(c) == c \notin Whitespace /\ c # "."

\* the lazy quantifier +? followed by %: from position j on, end at the first
\* %, extend over a key character, fail on anything else; 0 is failure
RECURSIVE LazyEnd(_, _)
LazyEnd(t, j) ==
    IF j > Len(t) THEN 0
    ELSE IF t[j] = "%" THEN j
    ELSE IF KeyChar(t[j]) THEN LazyEnd(t, j + 1)
    ELSE 0

\* the end of the match of /%[^\s.]+?%/ starting at position i, 0 when none
MatchAt(t, i) ==
    IF i + 2 <= Len(t) /\ t[i] = "%" /\ KeyChar(t[i + 1])
    THEN LazyEnd(t, i + 2)
    ELSE 0

\* the spans <<start, end>> of the non-overlapping matches of the global
\* regular expression, left to right from position i
RECURSIVE MatchSpans(_, _)
MatchSpans(t, i) ==
    IF i > Len(t) THEN <<>>
    ELSE LET e == MatchAt(t, i)
         IN IF e # 0 THEN <<<<i, e>>>> \o MatchSpans(t, e + 1)
            ELSE MatchSpans(t, i + 1)

\* template.match(regex) || []
Matches(t) ==
    LET spans == MatchSpans(t, 1)
    IN [k \in 1..Len(spans) |-> SubSeq(t, spans[k][1], spans[k][2])]

\* GetSubstitution of String.prototype.replace with a string pattern: $$, $&,
\* $` and $' are expanded, every other character is copied
RECURSIVE GetSubstitution(_, _, _, _)
GetSubstitution(matched, str, position, replacement) ==
    IF replacement = <<>> THEN <<>>
    ELSE IF Head(replacement) = "$" /\ Len(replacement) >= 2
    THEN LET c == replacement[2]
             rest == Tail(Tail(replacement))
         IN CASE c = "$" ->
                   <<"$">> \o GetSubstitution(matched, str, position, rest)
              [] c = "&" ->
                   matched \o GetSubstitution(matched, str, position, rest)
              [] c = "`" ->
                   Slice(str, 1, position - 1)
                       \o GetSubstitution(matched, str, position, rest)
              [] c = "'" ->
                   Slice(str, position + Len(matched), Len(str))
                       \o GetSubstitution(matched, str, position, rest)
              [] OTHER ->
                   <<"$">> \o GetSubstitution(matched, str, position,
                                              Tail(replacement))
    ELSE <<Head(replacement)>>
             \o GetSubstitution(matched, str, position, Tail(replacement))

\* the result of a call that may throw
Returned(s) == [thrown |-> FALSE, s |-> s]
Thrown == [thrown |-> TRUE, s |-> <<>>]

\* template.replace(match, value): the first occurrence of the string match
\* is replaced; a function value is called as the replacer
Replace(str, match, value) ==
    LET pos == IndexOf(str, match)
    IN IF pos = 0 THEN Returned(str)
       ELSE IF value.t = "function"
       THEN IF value.n = 1 THEN Thrown
            ELSE Returned(Slice(str, 1, pos - 1) \o value.s
                            \o Slice(str, pos + Len(match), Len(str)))
       ELSE Returned(Slice(str, 1, pos - 1)
                        \o GetSubstitution(match, str, pos, ToStr(value))
                        \o Slice(str, pos + Len(match), Len(str)))

\* the for loop of generateTemplate over matches[i..]
RECURSIVE ReplaceLoop(_, _, _, _)
ReplaceLoop(template, matches, i, data) ==
    IF i > Len(matches) THEN Returned(template)
    ELSE IF data.t = "null" THEN Thrown
    ELSE LET match == matches[i]
             key == Slice(match, 2, Len(match) - 1)
             found == Lookup(data, key)
             value == IF found = Undefined THEN Str(<<>>) ELSE found
             r == Replace(template, match, value)
         IN IF r.thrown THEN Thrown
            ELSE ReplaceLoop(r.s, matches, i + 1, data)

generateTemplate(template, data) ==
    ReplaceLoop(template, Matches(template), 1, data)

(***************************************************************************)
(* State.                                                                  *)
(***************************************************************************)
VARIABLES
    \* the substitution specification: the arguments of one call of
    \* generateTemplate and its result
    genTemplate, genData, genResult,
    \* process.platform === 'win32'
    isWindows,
    \* the process is running
    alive,
    \* the one invocation of run whose prompt can be answered: the prompt it
    \* waits at and its parameters
    pc, template, templateFileLocation,
    \* the invocations of run whose question readline dropped
    orphans,
    \* what the last step of the session printed
    out,
    \* the results directory
    resultsExists, results,
    \* history: for each name a cycle of the session has written, the content
    \* of the last such write
    artifacts,
    \* the last input handled and the response to the last request
    event, response

vars == <<genTemplate, genData, genResult, isWindows, alive, pc, template,
          templateFileLocation, orphans, out, resultsExists, results,
          artifacts, event, response>>

genVars == <<genTemplate, genData, genResult>>

sysVars == <<isWindows, alive, pc, template, templateFileLocation, orphans,
             out, resultsExists, results, artifacts, event, response>>

NotCalled == [called |-> FALSE, thrown |-> FALSE, s |-> <<>>]
Called(r) == [called |-> TRUE, thrown |-> r.thrown, s |-> r.s]

(***************************************************************************)
(* The substitution specification: generateTemplate applied to bounded     *)
(* templates and data mappings.                                            *)
(***************************************************************************)
TemplatePieces ==
    { <<"%">>, <<"a">>, <<" ">>, <<".">>,
      <<"%", "a", "%">>, <<"%", "b", "%">>,
      <<"v", "a", "l", "u", "e", "O", "f">> }

Templates ==
    { Flatten(ps) : ps \in UNION { [1..n -> TemplatePieces] : n \in 0..MaxPieces } }

DataKeys == { <<"a">>, <<"b">> }

DataValues ==
    { Str(<<"X">>), Str(<<"%", "b", "%">>), Str(<<"%", "a", "%", "x">>),
      Str(<<"$", "$">>), Str(<<"$", "&">>), Str(<<"%">>), Num(20) }

Mappings == UNION { [ks -> DataValues] : ks \in SUBSET DataKeys }

\* a results directory without entries, and no response
EmptyDir == [n \in {} |-> <<>>]
NoResponse == [status |-> 0, contentType |-> "", body |-> <<>>]

\* the state of the session and the server before the first prompt is asked;
\* the substitution specification leaves it alone
SysIdle ==
    /\ isWindows = FALSE
    /\ alive = TRUE
    /\ pc = "AwaitTemplatePath"
    /\ template = Undefined
    /\ templateFileLocation = Undefined
    /\ orphans = 0
    /\ out = <<>>
    /\ resultsExists = TRUE
    /\ results = EmptyDir
    /\ artifacts = EmptyDir
    /\ event = [kind |-> "start", input |-> <<>>]
    /\ response = NoResponse

InitGen ==
    /\ genTemplate \in Templates
    /\ genData \in { Obj(m) : m \in Mappings }
    /\ genResult = NotCalled
    /\ SysIdle

\* one call generateTemplate(genTemplate, genData)
GenCall ==
    /\ ~genResult.called
    /\ genResult' = Called(generateTemplate(genTemplate, genData))
    /\ UNCHANGED <<genTemplate, genData>>
    /\ UNCHANGED sysVars

NextGen == GenCall

SpecGen == InitGen /\ [][NextGen]_vars

(***************************************************************************)
(* Claims about generateTemplate, checked under SpecGen.                   *)
(***************************************************************************)
\* the keys of the tokens the regular expression finds in t
TokenKeys(t) ==
    LET ms == Matches(t)
    IN { Slice(ms[k], 2, Len(ms[k]) - 1) : k \in 1..Len(ms) }

\* what the token with this key stands for: the string form of the mapping's
\* value, the empty string for a key the mapping does not have
Substitute(key, data) ==
    IF key \in DOMAIN data.m THEN ToStr(data.m[key]) ELSE <<>>

\* t from position i on with every token replaced, in one pass over t, by what
\* it stands for, and every other character copied
RECURSIVE SinglePass(_, _, _)
SinglePass(t, i, data) ==
    IF i > Len(t) THEN <<>>
    ELSE LET e == MatchAt(t, i)
         IN IF e # 0
            THEN Substitute(Slice(t, i + 1, e - 1), data)
                     \o SinglePass(t, e + 1, data)
            ELSE <<t[i]>> \o SinglePass(t, i + 1, data)

GenReturns(s) == genResult.called /\ ~genResult.thrown /\ genResult.s = s

\* C1: when every token of the template has its key in the data mapping, the
\* output is the template with each token replaced by the string form of its
\* value and every other character kept, in order.
C1_PresentKeysReplaced ==
    (genResult.called /\ TokenKeys(genTemplate) \subseteq DOMAIN genData.m)
        => GenReturns(SinglePass(genTemplate, 1, genData))

\* C2: when a token string occurs more than once in the template, all of its
\* occurrences are replaced, each by the same value.
RepeatedToken(t) ==
    LET ms == Matches(t)
    IN \E j, k \in 1..Len(ms) : j # k /\ ms[j] = ms[k]

C2_AllOccurrencesReplaced ==
    (genResult.called /\ RepeatedToken(genTemplate))
        => GenReturns(SinglePass(genTemplate, 1, genData))

\* C3: when no token of the template has its key in the data mapping, every
\* token is replaced by the empty string and no error is raised.
C3_AbsentKeysEmpty ==
    (/\ genResult.called
     /\ TokenKeys(genTemplate) # {}
     /\ TokenKeys(genTemplate) \cap DOMAIN genData.m = {})
        => GenReturns(SinglePass(genTemplate, 1, Obj(<<>>)))

\* C4: substitution is single-pass and verbatim: when some token's value
\* contains a marker or a dollar character, the output is still the template
\* with each token replaced by exactly the string form of its value.
SpecialValue(t, data) ==
    \E key \in TokenKeys(t) \cap DOMAIN data.m :
        \E k \in 1..Len(ToStr(data.m[key])) :
            ToStr(data.m[key])[k] \in {"%", "$"}

C4_SinglePassVerbatim ==
    (genResult.called /\ SpecialValue(genTemplate, genData))
        => GenReturns(SinglePass(genTemplate, 1, genData))

(***************************************************************************)
(* The session and the server: helpers.                                    *)
(***************************************************************************)
PORT == "3000"
GitIgnore == <<".", "g", "i", "t", "i", "g", "n", "o", "r", "e">>
DotHtml == <<".", "h", "t", "m", "l">>
DotJson == <<".", "j", "s", "o", "n">>

\* String.prototype.trim
RECURSIVE TrimStart(_)
TrimStart(s) ==
    IF s # <<>> /\ Head(s) \in Whitespace THEN TrimStart(Tail(s)) ELSE s

RECURSIVE TrimEnd(_)
TrimEnd(s) ==
    IF s # <<>> /\ s[Len(s)] \in Whitespace
    THEN TrimEnd(SubSeq(s, 1, Len(s) - 1))
    ELSE s

Trim(s) == TrimEnd(TrimStart(s))

\* the last element of path.split(sep)
RECURSIVE LastSegment(_, _)
LastSegment(path, sep) ==
    LET i == IndexOf(path, <<sep>>)
    IN IF i = 0 THEN path
       ELSE LastSegment(Slice(path, i + 1, Len(path)), sep)

getFileNameFromPath(path) ==
    LastSegment(path, IF isWindows THEN "\\" ELSE "/")

\* !v of JavaScript, for undefined and strings
Falsy(v) == v.t = "undefined" \/ (v.t = "string" /\ v.s = <<>>)

\* the files the operator can name: template files with their text, and data
\* files with the outcome of JSON.parse on their text
PathT == <<"/", "d", "/", "t", ".", "h", "t", "m", "l">>
PathE == <<"/", "e", ".", "h", "t", "m", "l">>
PathW == <<"d", "\\", "t", ".", "h", "t", "m", "l">>
PathX == <<"/", "x", ".", "h", "t", "m", "l">>
PathG == <<"/", "g", ".", "h", "t", "m", "l", "/">> \o GitIgnore
PathA == <<"/", "a", ".", "j", "s", "o", "n">>
PathB == <<"/", "b", ".", "j", "s", "o", "n">>
PathN == <<"/", "n", ".", "j", "s", "o", "n">>
PathS == <<"/", "s", ".", "j", "s", "o", "n">>
PathM == <<"/", "m", ".", "j", "s", "o", "n">>

TemplateFiles ==
    [p \in {PathT, PathE, PathW, PathG} |->
        CASE p = PathT -> <<"%", "a", "%", "!">>
          [] p = PathG -> <<"g">>
          [] p = PathE -> <<>>
          [] p = PathW -> <<"%", "b", "%">>]

Parsed(v) == [ok |-> TRUE, v |-> v]
Unparsable == [ok |-> FALSE, v |-> JsonNull]

DataFiles ==
    [p \in {PathA, PathB, PathN, PathS} |->
        CASE p = PathA -> Parsed(Obj([k \in {<<"a">>} |-> Str(<<"X">>)]))
          [] p = PathB -> Parsed(Obj([k \in {<<"b">>} |-> Num(20)]))
          [] p = PathN -> Parsed(JsonNull)
          [] p = PathS -> Unparsable]

\* what the operator types at the two prompts, before trim
TemplateAnswers ==
    { <<" ">>, <<"t">>, PathX, PathT, PathE \o <<" ">>, PathW, PathG }

DataAnswers ==
    { <<>>, <<"j">>, PathM, PathS, <<" ">> \o PathA, PathB, PathN }

\* the request urls
Urls ==
    { <<"/">>, <<"/", "t", ".", "h", "t", "m", "l">>,
      <<"/", "e", ".", "h", "t", "m", "l">>,
      <<"/", "n", "o">>, <<"/">> \o GitIgnore }

readTemplateFile(filePath) ==
    IF filePath \in DOMAIN TemplateFiles
    THEN Returned(TemplateFiles[filePath])
    ELSE Thrown

\* readDataFile: the parsed value, or the name of the error thrown
readDataFile(filePath) ==
    IF filePath \notin DOMAIN DataFiles
    THEN [error |-> "Error", v |-> JsonNull]
    ELSE IF ~DataFiles[filePath].ok
    THEN [error |-> "SyntaxError", v |-> JsonNull]
    ELSE [error |-> "", v |-> DataFiles[filePath].v]

\* console output, a message being a sequence of strings
MsgHtml == <<"Template file should be of type html!">>
MsgJson == <<"Data file should be of type JSON!">>
MsgNotFound(path) == <<"File '">> \o path \o <<"' not found!">>
MsgInvalidJson(path) == <<"File '">> \o path \o <<"' is invalid JSON!">>
MsgNoCreate == <<"Could not create file!">>
MsgServed(name) ==
    <<"New file is served on https://localhost:", PORT, "/">> \o name
PromptTemplate == <<"\n", "Enter template file location: ">>
PromptData == <<"\n", "Enter data file location: ">>

(***************************************************************************)
(* The session: run.                                                       *)
(***************************************************************************)
\* a variant of the guard that looks at the template alone
NeedsTemplateByContent(t, l) == Falsy(t)

\* the guard !template && !templateFileLocation of run
NeedsTemplate(t, l) == Falsy(t) /\ Falsy(l)

\* an invocation run({template: t, templateFileLocation: l}) up to its first
\* prompt, after the messages in printed
Run(t, l, printed) ==
    /\ template' = t
    /\ templateFileLocation' = l
    /\ IF NeedsTemplate(t, l)
       THEN /\ pc' = "AwaitTemplatePath"
            /\ out' = printed \o <<PromptTemplate>>
       ELSE /\ pc' = "AwaitDataPath"
            /\ out' = printed \o <<PromptData>>

\* a variant of the failed template step that passes the state on
TemplateStepFailedKeeping(loc, msg) == Run(template, Str(loc), <<msg>>)

\* a failed template step: the message, then return run()
TemplateStepFailed(loc, msg) == Run(Undefined, Undefined, <<msg>>)

\* a failed data step: the message, then
\* return run({ template, templateFileLocation })
DataStepFailed(msg) == Run(template, templateFileLocation, <<msg>>)

\* the answer to "Enter template file location: "
AnswerTemplate(raw) ==
    /\ alive
    /\ pc = "AwaitTemplatePath"
    /\ event' = [kind |-> "answer", input |-> raw]
    /\ LET loc == Trim(raw)
       IN IF loc = <<>> \/ ~Includes(loc, DotHtml)
          THEN TemplateStepFailed(loc, MsgHtml)
          ELSE IF readTemplateFile(loc).thrown
          THEN TemplateStepFailed(loc, MsgNotFound(loc))
          ELSE /\ template' = Str(readTemplateFile(loc).s)
               /\ templateFileLocation' = Str(loc)
               /\ pc' = "AwaitDataPath"
               /\ out' = <<PromptData>>
    /\ UNCHANGED <<isWindows, alive, orphans, resultsExists, results,
                   artifacts, response>>
    /\ UNCHANGED genVars

\* fs.writeFileSync into the results directory succeeds
WriteOk(name) ==
    /\ resultsExists
    /\ name # <<>>
    /\ ~Includes(name, <<"/">>)

\* a variant of the successful write that empties the directory first
WrittenAlone(name, content) ==
    /\ results' = (name :> content)
    /\ artifacts' = (name :> content) @@ artifacts
    /\ Run(Undefined, Undefined, <<MsgServed(name)>>)
    /\ UNCHANGED <<alive, orphans>>

\* a variant of the successful write that leaves an existing file as it is
WrittenKeepingOld(name, content) ==
    /\ results' = results @@ (name :> content)
    /\ artifacts' = (name :> content) @@ artifacts
    /\ Run(Undefined, Undefined, <<MsgServed(name)>>)
    /\ UNCHANGED <<alive, orphans>>

\* the write succeeded: the served-URL message, then run()
Written(name, content) ==
    /\ results' = (name :> content) @@ results
    /\ artifacts' = (name :> content) @@ artifacts
    /\ Run(Undefined, Undefined, <<MsgServed(name)>>)
    /\ UNCHANGED <<alive, orphans>>

\* generateTemplate threw inside run: the promise of run is rejected and
\* nobody handles it; the session asks nothing more, and the process goes on
\* or exits, by the version of the platform
RunRejected ==
    /\ pc' = "Rejected"
    /\ out' = <<>>
    /\ alive' \in BOOLEAN
    /\ UNCHANGED <<template, templateFileLocation, orphans, results,
                   artifacts>>

\* a variant of the failed write without the try/catch of writeFile
WriteFailedUncaught(name) == RunRejected

\* the write failed: writeFile reports it and calls onError = run, whose
\* question becomes the pending one; then the served-URL message; then run(),
\* whose question readline drops while another is pending, showing the
\* pending prompt again
WriteFailed(name) ==
    /\ orphans < MaxOrphans
    /\ orphans' = orphans + 1
    /\ pc' = "AwaitTemplatePath"
    /\ template' = Undefined
    /\ templateFileLocation' = Undefined
    /\ out' = <<MsgNoCreate, PromptTemplate, MsgServed(name), PromptTemplate>>
    /\ UNCHANGED <<alive, results, artifacts>>

\* lines 174-182 of run
Render(data) ==
    LET templateFileName == getFileNameFromPath(templateFileLocation.s)
        newContent == generateTemplate(template.s, data)
    IN IF newContent.thrown THEN RunRejected
       ELSE IF WriteOk(templateFileName)
       THEN Written(templateFileName, newContent.s)
       ELSE WriteFailed(templateFileName)

\* a variant of the catch branch that tells the two errors apart the wrong
\* way round
DataErrorMessageSwapped(name, dataFileLocation) ==
    IF name = "SyntaxError"
    THEN MsgNotFound(dataFileLocation)
    ELSE MsgInvalidJson(dataFileLocation)

\* the catch branch of the data step: error.name === 'SyntaxError'
DataErrorMessage(name, dataFileLocation) ==
    IF name = "SyntaxError"
    THEN MsgInvalidJson(dataFileLocation)
    ELSE MsgNotFound(dataFileLocation)

\* the answer to "Enter data file location: "
AnswerData(raw) ==
    /\ alive
    /\ pc = "AwaitDataPath"
    /\ event' = [kind |-> "answer", input |-> raw]
    /\ LET dataFileLocation == Trim(raw)
       IN IF dataFileLocation = <<>> \/ ~Includes(dataFileLocation, DotJson)
          THEN /\ DataStepFailed(MsgJson)
               /\ UNCHANGED <<alive, orphans, results, artifacts>>
          ELSE IF readDataFile(dataFileLocation).error # ""
          THEN /\ DataStepFailed(
                     DataErrorMessage(readDataFile(dataFileLocation).error,
                                      dataFileLocation))
               /\ UNCHANGED <<alive, orphans, results, artifacts>>
          ELSE Render(readDataFile(dataFileLocation).v)
    /\ UNCHANGED <<isWindows, resultsExists, response>>
    /\ UNCHANGED genVars

(***************************************************************************)
(* The server: httpsRequestHandler.                                        *)
(***************************************************************************)
serveHtml(html) ==
    [status |-> 200, contentType |-> "text/html", body |-> html]

NotFound(text) ==
    [status |-> 404, contentType |-> "text/plain", body |-> <<text>>]

IndexFailed == NotFound("Could not generate index")

\* a variant that answers a failed read through serveHtml
FileNotFoundAsHtml == serveHtml(<<"File not found!">>)

FileNotFound == NotFound("File not found!")

\* the orders in which fs.readdir can list the results directory
Listings ==
    LET names == DOMAIN results
        n == Cardinality(names)
    IN { l \in [1..n -> names] : \A i, j \in 1..n : l[i] = l[j] => i = j }

Anchor(file) ==
    <<"<a href=\"https://localhost:", PORT, "/">> \o file \o <<"\">">>
        \o file \o <<"</a><br />">>

RECURSIVE Anchors(_)
Anchors(files) ==
    IF files = <<>> THEN <<>>
    ELSE Anchor(Head(files)) \o Anchors(Tail(files))

\* a variant of generateIndex that lists every entry
generateIndexUnfiltered(err, listing) ==
    IF err THEN [outcome |-> "uncaught", html |-> <<>>]
    ELSE [outcome |-> "resolved",
          html |-> <<"<html><body>\n      ">>
                     \o (IF Len(listing) = 0 THEN <<"No files found!">>
                         ELSE Anchors(listing))
                     \o <<"\n      </body></html>">>]

\* the callback of fs.readdir in generateIndex: files.filter is called before
\* err is looked at, so on an error, files being undefined, the callback
\* throws outside the promise and the exception is uncaught
generateIndex(err, listing) ==
    IF err THEN [outcome |-> "uncaught", html |-> <<>>]
    ELSE LET files == SelectSeq(listing, LAMBDA file : file # GitIgnore)
         IN [outcome |-> "resolved",
             html |-> <<"<html><body>\n      ">>
                        \o (IF Len(files) = 0 THEN <<"No files found!">>
                            ELSE Anchors(files))
                        \o <<"\n      </body></html>">>]

\* fs.readFileSync(`${RESULTS_DIRECTORY}/${req.url}`)
readResultFile(url) ==
    LET name == Tail(url)
    IN IF resultsExists /\ name \in DOMAIN results
       THEN Returned(results[name])
       ELSE Thrown

httpsRequestHandler(url) ==
    /\ alive
    /\ event' = [kind |-> "request", input |-> url]
    /\ IF url = <<"/">>
       THEN \E listing \in Listings :
              LET index == generateIndex(~resultsExists, listing)
              IN CASE index.outcome = "resolved" ->
                        /\ response' = serveHtml(index.html)
                        /\ alive' = alive
                   [] index.outcome = "rejected" ->
                        /\ response' = IndexFailed
                        /\ alive' = alive
                   [] index.outcome = "uncaught" ->
                        /\ response' = NoResponse
                        /\ alive' = FALSE
       ELSE /\ response' = IF readResultFile(url).thrown
                           THEN FileNotFound
                           ELSE serveHtml(readResultFile(url).s)
            /\ alive' = alive
    /\ UNCHANGED <<isWindows, pc, template, templateFileLocation, orphans,
                   out, resultsExists, results, artifacts>>
    /\ UNCHANGED genVars

(***************************************************************************)
(* The system specification.                                               *)
(***************************************************************************)
Init ==
    /\ genTemplate = <<>>
    /\ genData = Obj(<<>>)
    /\ genResult = NotCalled
    /\ isWindows \in BOOLEAN
    /\ alive = TRUE
    /\ pc = "AwaitTemplatePath"
    /\ template = Undefined
    /\ templateFileLocation = Undefined
    /\ orphans = 0
    /\ out = <<PromptTemplate>>
    /\ resultsExists \in BOOLEAN
    /\ results \in IF resultsExists
                  THEN {EmptyDir, [n \in {GitIgnore} |-> <<>>]}
                  ELSE {EmptyDir}
    /\ artifacts = EmptyDir
    /\ event = [kind |-> "start", input |-> <<>>]
    /\ response = NoResponse

Next ==
    \/ \E raw \in TemplateAnswers : AnswerTemplate(raw)
    \/ \E raw \in DataAnswers : AnswerData(raw)
    \/ \E url \in Urls : httpsRequestHandler(url)

Spec == Init /\ [][Next]_vars

(***************************************************************************)
(* Claims about the session and the server, checked under Spec.            *)
(***************************************************************************)
Last(o) == o[Len(o)]
InOut(msg, o) == \E i \in 1..Len(o) : o[i] = msg

\* the trimmed answer fails the template step, fails the data step
TemplateAnswerFails(loc) ==
    loc = <<>> \/ ~Includes(loc, DotHtml) \/ loc \notin DOMAIN TemplateFiles

DataAnswerFails(loc) ==
    \/ loc = <<>>
    \/ ~Includes(loc, DotJson)
    \/ loc \notin DOMAIN DataFiles
    \/ ~DataFiles[loc].ok

\* the step answers the data prompt with a data file that parses, and
\* generateTemplate returns
RenderStep ==
    /\ pc = "AwaitDataPath"
    /\ event'.kind = "answer"
    /\ ~DataAnswerFails(Trim(event'.input))
    /\ ~generateTemplate(template.s,
                         DataFiles[Trim(event'.input)].v).thrown

\* C5: a failed data step asks the data prompt again, does not ask the
\* template prompt, and keeps the template content and the template file
\* location, an empty template included; the render that ends the cycle
\* writes generateTemplate of that content under the name of that location.
C5_DataFailureRetriesDataStep ==
    [][/\ (/\ pc = "AwaitDataPath"
           /\ event'.kind = "answer"
           /\ DataAnswerFails(Trim(event'.input)))
          => (/\ pc' = "AwaitDataPath"
              /\ template' = template
              /\ templateFileLocation' = templateFileLocation
              /\ Last(out') = PromptData
              /\ ~InOut(PromptTemplate, out'))
       /\ (RenderStep /\ WriteOk(getFileNameFromPath(templateFileLocation.s)))
          => results' =
                (getFileNameFromPath(templateFileLocation.s) :>
                    generateTemplate(template.s,
                                     DataFiles[Trim(event'.input)].v).s)
                @@ results
      ]_vars

\* a data file with invalid JSON was named after the empty template was read
C5_Witness ==
    /\ pc = "AwaitDataPath"
    /\ template = Str(<<>>)
    /\ templateFileLocation = Str(PathE)
    /\ out = <<MsgInvalidJson(PathS), PromptData>>

\* C6: a failed template step asks the template prompt again with no state
\* kept and asks no data prompt; the data prompt is only ever pending with a
\* template that was read from the template file location.
C6_TemplateFailureRestarts ==
    [][/\ (/\ pc = "AwaitTemplatePath"
           /\ event'.kind = "answer"
           /\ TemplateAnswerFails(Trim(event'.input)))
          => (/\ pc' = "AwaitTemplatePath"
              /\ template' = Undefined
              /\ templateFileLocation' = Undefined
              /\ Last(out') = PromptTemplate
              /\ ~InOut(PromptData, out'))
       /\ pc' = "AwaitDataPath"
          => (/\ templateFileLocation'.t = "string"
              /\ templateFileLocation'.s \in DOMAIN TemplateFiles
              /\ template' = Str(TemplateFiles[templateFileLocation'.s]))
      ]_vars

\* a template path with .html that names no file was answered
C6_Witness ==
    /\ pc = "AwaitTemplatePath"
    /\ event = [kind |-> "answer", input |-> PathX]
    /\ out = <<MsgNotFound(PathX), PromptTemplate>>

\* C7: when the write of the artifact fails, the failure and then the
\* served-URL message are printed, the process goes on, and the session
\* waits at the template prompt with no template state.
C7_WriteFailureNonFatal ==
    [][(RenderStep /\ ~WriteOk(getFileNameFromPath(templateFileLocation.s)))
          => (/\ alive'
              /\ pc' = "AwaitTemplatePath"
              /\ template' = Undefined
              /\ templateFileLocation' = Undefined
              /\ \E i, j \in 1..Len(out') :
                    /\ i < j
                    /\ out'[i] = MsgNoCreate
                    /\ out'[j] =
                         MsgServed(getFileNameFromPath(templateFileLocation.s))
              /\ Last(out') = PromptTemplate)
      ]_vars

\* a write has failed
C7_Witness ==
    /\ alive
    /\ pc = "AwaitTemplatePath"
    /\ event.kind = "answer"
    /\ InOut(MsgNoCreate, out)

\* C8: a request for / while the results directory is missing gets a 404
\* response with a plain-text body.
C8_RootMissing404 ==
    (event.kind = "request" /\ event.input = <<"/">> /\ ~resultsExists)
        => (response.status = 404 /\ response.contentType = "text/plain")

\* C9: no request stops the server: after every request the process is
\* running and the request has its response.
C9_RequestsNeverStopServer ==
    event.kind = "request" => (alive /\ response.status # 0)

\* C10: a request for a path other than / gets 200, text/html and the
\* file's content when the file can be read from the results directory, and
\* 404, text/plain and the file-not-found text when it cannot.
C10_FileRequestResponse ==
    (event.kind = "request" /\ event.input # <<"/">>)
        => response =
             IF resultsExists /\ Tail(event.input) \in DOMAIN results
             THEN [status |-> 200, contentType |-> "text/html",
                   body |-> results[Tail(event.input)]]
             ELSE [status |-> 404, contentType |-> "text/plain",
                   body |-> <<"File not found!">>]

\* the artifact a cycle wrote was requested and served
C10_Witness ==
    /\ event = [kind |-> "request",
                input |-> <<"/", "t", ".", "h", "t", "m", "l">>]
    /\ response.status = 200
    /\ response.body = <<"X", "!">>

\* the entries of the results directory the index lists
RootEntries == DOMAIN results \ {GitIgnore}

\* the hyperlink to an entry, and the number of places where pat occurs in body
Hyperlink(file) ==
    <<"<a href=\"https://localhost:", PORT, "/">> \o file \o <<"\">">>
        \o file \o <<"</a><br />">>

Occurrences(body, pat) ==
    Cardinality({ i \in 1..Len(body) : OccursAt(body, pat, i) })

\* C11: a request for / on an existing results directory gets 200 and
\* text/html; the body has one hyperlink for each entry other than .gitignore
\* and no other hyperlink, and has the no-files text exactly when there is no
\* such entry.
C11_IndexListsEntries ==
    (event.kind = "request" /\ event.input = <<"/">> /\ resultsExists)
        => (/\ response.status = 200
            /\ response.contentType = "text/html"
            /\ \A f \in RootEntries :
                  Occurrences(response.body, Hyperlink(f)) = 1
            /\ Occurrences(response.body, <<"<a href=\"https://localhost:">>)
                  = Cardinality(RootEntries)
            /\ Occurrences(response.body, <<"No files found!">>)
                  = IF RootEntries = {} THEN 1 ELSE 0)

\* the index of a directory with .gitignore and two artifacts was served
C11_Witness ==
    /\ event = [kind |-> "request", input |-> <<"/">>]
    /\ response.status = 200
    /\ GitIgnore \in DOMAIN results
    /\ Cardinality(RootEntries) = 2

\* C12: in the data step, a file that is read but is not valid JSON is
\* reported with the invalid-JSON message and not with the not-found message;
\* a file that cannot be read is reported with the not-found message and not
\* with the invalid-JSON message.
C12_ReadFailuresDistinguished ==
    [][(/\ pc = "AwaitDataPath"
        /\ event'.kind = "answer"
        /\ Trim(event'.input) # <<>>
        /\ Includes(Trim(event'.input), DotJson))
          => LET loc == Trim(event'.input)
             IN /\ (loc \in DOMAIN DataFiles /\ ~DataFiles[loc].ok)
                      => (/\ InOut(<<"File '">> \o loc
                                     \o <<"' is invalid JSON!">>, out')
                          /\ ~InOut(<<"File '">> \o loc
                                      \o <<"' not found!">>, out'))
                /\ loc \notin DOMAIN DataFiles
                      => (/\ InOut(<<"File '">> \o loc
                                     \o <<"' not found!">>, out')
                          /\ ~InOut(<<"File '">> \o loc
                                      \o <<"' is invalid JSON!">>, out'))
      ]_vars

\* a data file with invalid JSON was just reported
C12_Witness ==
    /\ pc = "AwaitDataPath"
    /\ event = [kind |-> "answer", input |-> PathS]
    /\ InOut(<<"File '">> \o PathS \o <<"' is invalid JSON!">>, out)

\* C13: the session has no terminal state: after every step it waits at the
\* template prompt or at the data prompt, and after every step that answers
\* the data prompt with a data file that parses (a render step) it waits at
\* the template prompt with no template state.
C13_NoTerminalState ==
    [][/\ pc' \in {"AwaitTemplatePath", "AwaitDataPath"}
       /\ (/\ pc = "AwaitDataPath"
           /\ event'.kind = "answer"
           /\ ~DataAnswerFails(Trim(event'.input)))
          => (/\ pc' = "AwaitTemplatePath"
              /\ template' = Undefined
              /\ templateFileLocation' = Undefined)
      ]_vars

\* the part of path after its last platform separator, path when it has none
FinalSegment(path) ==
    LET sep == IF isWindows THEN "\\" ELSE "/"
        at == { i \in 1..Len(path) : path[i] = sep }
    IN IF at = {} THEN path
       ELSE Slice(path, (CHOOSE i \in at : \A j \in at : j <= i) + 1,
                  Len(path))

\* C14: the results directory changes only in a step that ends a cycle: the
\* step answers the data prompt with a data file that parses, the session
\* holds a template read from its template file location, and afterwards the
\* session waits at the template prompt; the file named by the final segment
\* of the template file location then holds generateTemplate(template, data),
\* and nothing else in the directory changes; a file of that name that
\* exists holds the new content after the step.
C14_WriteOnlyAtCycleEnd ==
    [][/\ (RenderStep
           /\ FinalSegment(templateFileLocation.s) \in DOMAIN results)
          => results'[FinalSegment(templateFileLocation.s)] =
                generateTemplate(template.s,
                                 DataFiles[Trim(event'.input)].v).s
       /\ results' # results
          => /\ pc = "AwaitDataPath"
             /\ event'.kind = "answer"
             /\ ~DataAnswerFails(Trim(event'.input))
             /\ templateFileLocation.t = "string"
             /\ templateFileLocation.s \in DOMAIN TemplateFiles
             /\ template = Str(TemplateFiles[templateFileLocation.s])
             /\ pc' = "AwaitTemplatePath"
             /\ LET name == FinalSegment(templateFileLocation.s)
                    data == DataFiles[Trim(event'.input)].v
                IN /\ DOMAIN results' = DOMAIN results \cup {name}
                   /\ ~generateTemplate(template.s, data).thrown
                   /\ results'[name] = generateTemplate(template.s, data).s
                   /\ \A n \in DOMAIN results \ {name} :
                         results'[n] = results[n]
      ]_vars

\* the artifact t.html has been written from /d/t.html and /b.json
C14_Witness ==
    /\ pc = "AwaitTemplatePath"
    /\ event = [kind |-> "answer", input |-> PathB]
    /\ <<"t", ".", "h", "t", "m", "l">> \in DOMAIN results
    /\ results[<<"t", ".", "h", "t", "m", "l">>] = <<"!">>

\* the response to a request for the file name of an artifact is the content
\* the last cycle that wrote that name has written
ArtifactServed ==
    \A name \in DOMAIN artifacts :
        event.input = <<"/">> \o name
            => response = [status |-> 200, contentType |-> "text/html",
                           body |-> artifacts[name]]

\* C15 as stated: after a cycle has written an artifact, a request for its
\* name is answered 200 with the content of the last cycle that wrote the
\* name, and a request for / is answered 200 with a hyperlink to it.
C15_ArtifactServedAndListed ==
    event.kind = "request"
        => (/\ ArtifactServed
            /\ event.input = <<"/">>
                  => \A name \in DOMAIN artifacts :
                        /\ response.status = 200
                        /\ Occurrences(response.body, Hyperlink(name)) = 1)

\* C15 as amended: the same, except that the index lists an artifact only
\* when its name is not .gitignore; an artifact named .gitignore is served
\* under its name and never listed.
C15_ArtifactServedAndListedUnlessIgnored ==
    event.kind = "request"
        => (/\ ArtifactServed
            /\ event.input = <<"/">>
                  => \A name \in DOMAIN artifacts :
                        /\ response.status = 200
                        /\ Occurrences(response.body, Hyperlink(name)) =
                              IF name = GitIgnore THEN 0 ELSE 1)

\* the index was requested after cycles wrote t.html and .gitignore
C15_Witness ==
    /\ event = [kind |-> "request", input |-> <<"/">>]
    /\ response.status = 200
    /\ {GitIgnore, <<"t", ".", "h", "t", "m", "l">>} \subseteq DOMAIN artifacts

\* C18: at most one invocation of run is active: the invocation whose prompt
\* is pending and the invocations whose question was dropped are never more
\* than one.
C18_SingleInvocation ==
    (IF pc \in {"AwaitTemplatePath", "AwaitDataPath"} THEN 1 ELSE 0) + orphans
        <= 1

\* C19: a request, a step of the template prompt and a failed data step leave
\* the results directory as it is; no step removes an entry or the directory,
\* and a step changes or adds at most the entry named by the final segment of
\* the template file location, while answering the data prompt.
C19_ResultsFrame ==
    [][/\ (\/ event'.kind = "request"
           \/ pc = "AwaitTemplatePath"
           \/ /\ pc = "AwaitDataPath"
              /\ event'.kind = "answer"
              /\ DataAnswerFails(Trim(event'.input)))
          => results' = results
       /\ resultsExists' = resultsExists
       /\ DOMAIN results \subseteq DOMAIN results'
       /\ \A n \in DOMAIN results' :
             (n \notin DOMAIN results \/ results'[n] # results[n])
                => (/\ pc = "AwaitDataPath"
                    /\ event'.kind = "answer"
                    /\ n = FinalSegment(templateFileLocation.s))
      ]_vars

\* a data step failed while the directory held .gitignore and an artifact
C19_Witness ==
    /\ pc = "AwaitDataPath"
    /\ event = [kind |-> "answer", input |-> PathS]
    /\ {GitIgnore, <<"t", ".", "h", "t", "m", "l">>} \subseteq DOMAIN results

(***************************************************************************)
(* Further claims about generateTemplate, checked under SpecGen.           *)
(***************************************************************************)
\* a key as the claims describe it: one or more characters, none of them
\* whitespace, the marker or a period
PlainKey(key) ==
    /\ key # <<>>
    /\ \A k \in 1..Len(key) : key[k] \notin Whitespace \cup {"%", "."}

\* C16: every token generateTemplate substitutes is a marker, a key of one or
\* more characters that are neither whitespace nor the marker nor a period,
\* and a marker.
C16_TokenKeyForm ==
    genResult.called
        => \A key \in TokenKeys(genTemplate) : PlainKey(key)

\* s contains a token as the claims describe it
HasPlainToken(s) ==
    \E i, j \in 1..Len(s) :
        /\ i < j
        /\ s[i] = "%"
        /\ s[j] = "%"
        /\ PlainKey(Slice(s, i + 1, j - 1))

\* C17: when the output of generateTemplate contains no token, applying
\* generateTemplate to the output with the same data returns the output.
C17_IdempotentWithoutTokens ==
    (genResult.called /\ ~genResult.thrown /\ ~HasPlainToken(genResult.s))
        => generateTemplate(genResult.s, genData) = Returned(genResult.s)

====
